---- MODULE Spec2Model ----
(***************************************************************************)
(* Model of saltyrtc/server/protocol.py: the Path slot table, the Client   *)
(* session and the Protocol engine.                                        *)
(*                                                                         *)
(* One coroutine step (the code between two suspension points) is one      *)
(* action.  Init is the state after Protocol(): an empty path table and no *)
(* connection.                                                             *)
(*                                                                         *)
(* Every handshake of the engine ends in an exception: an initiator's in   *)
(* previous_initiator.close() (line 335), a responder's in add_responder   *)
(* (line 87).  No run reaches the relay phase of _new_connection (lines    *)
(* 257-284): the position "relay" is in the model, as the end of the       *)
(* handshake branches that would lead there, and no reachable state has    *)
(* it (RelayPhaseNotReached).  The receive loops, the keep-alive and the   *)
(* relay coroutine, which only the relay phase starts, have no action.     *)
(* The new-responder task of _handshake_responder is never created either: *)
(* RunTask, the step of the loop that would run it, is never enabled       *)
(* (ReadyQueueEmpty) and is not part of Next.                              *)
(*                                                                         *)
(* Bounds: NSessions connections, NKeys initiator keys, slots 1..MaxSlot   *)
(* (0xff in the code), MaxFrames client frames in a run, MaxFaults         *)
(* connections closing, NCookies cookie values.                            *)
(***************************************************************************)
EXTENDS Integers, Sequences, FiniteSets, TLC

\* ------------------------------------------------------------- bounds

NSessions == 2
NKeys == 1
MaxSlot == 2
MaxFrames == 4
NCookies == 2
MaxFaults == 1

Sessions == 1..NSessions
Keys == 1..NKeys
Cookies == 1..NCookies

None == 0

SlotIds == 1..MaxSlot

PATH_LENGTH == 64

NormalClosure == 1000
DroppedByInitiator == 3004
GoingAway == 1001

VARIABLES
    paths,          \* Protocol._paths: key -> Path (exists, number, slots)
    path_number,    \* Protocol._path_number
    closed_future,  \* Protocol._closed_future.done()
    pc,             \* position of _new_connection for each session
    exc,            \* the exception _new_connection raised, or "none"
    path_of,        \* the Path (its key) _new_connection bound the session to
    ctype,          \* Client.type
    authenticated,  \* Client.authenticated
    server_cookie,  \* the cookie of the session's server-hello
    conn,           \* the WebSocket connection: "none", "open", "closed"
    close_code,     \* the code the server closed the connection with, or None
    inbox,          \* frames the client sent that no receive() has returned
    sent,           \* what the server wrote to the connection, in order
    ready,          \* the event loop's ready tasks, in FIFO order
    nsent,          \* number of frames the clients have sent
    events          \* the events the engine has emitted, in order; protocol.py
                    \* has no event registry and emits none

vars == <<paths, path_number, closed_future, pc, exc, path_of, ctype,
          authenticated, server_cookie, conn, close_code, inbox,
          sent, ready, nsent, events>>

\* ------------------------------------------------------------- Path

EmptySlots == [id \in SlotIds |-> None]

\* Path.__init__
NewPath(number) == [exists |-> TRUE, number |-> number, slots |-> EmptySlots]

NoPath == [exists |-> FALSE, number |-> 0, slots |-> EmptySlots]

\* Path.empty
empty(slots) == \A id \in SlotIds : slots[id] = None

\* Path.get_initiator
get_initiator(slots) == slots[1]

\* Path.set_initiator: the new table and the previous occupant.
set_initiator_beside(slots, initiator) ==
    IF slots[1] = None
    THEN [slots |-> [slots EXCEPT ![1] = initiator], previous |-> None]
    ELSE [slots |-> [slots EXCEPT ![MaxSlot] = initiator], previous |-> slots[1]]
set_initiator(slots, initiator) ==
    [slots |-> [slots EXCEPT ![1] = initiator], previous |-> slots[1]]

\* Path.get_responder: ValueError unless 0x01 < id_ <= 0xff.
get_responder(slots, id) ==
    IF ~(1 < id /\ id <= MaxSlot)
    THEN [exc |-> "ValueError", client |-> None]
    ELSE [exc |-> "none", client |-> slots[id]]

\* Path.get_responder_ids: every key of the slot table above 0x01, occupied
\* or not.
get_responder_ids(slots) == {id \in DOMAIN slots : id > 1}

\* Path.add_responder: "for id_, client in self._slots" iterates over the
\* keys of the dict; unpacking the first key, an int, into two names raises
\* TypeError.  Only an empty dict would reach the SlotsFullError.
add_responder(slots, responder) ==
    IF DOMAIN slots # {}
    THEN [exc |-> "TypeError", id |-> None, slots |-> slots]
    ELSE [exc |-> "SlotsFullError", id |-> None, slots |-> slots]

\* ------------------------------------------------------------- Client

\* The attributes of a Client instance: __slots__ and the members of the class.
ClientAttrs ==
    {"_log", "_connection", "_client_key", "_server_key", "_box", "type",
     "authenticated", "server_key", "box", "set_client_key",
     "update_log_name", "p2p_allowed", "send", "receive", "ping"}

\* Evaluating obj.close: AttributeError on None and on a Client, which has
\* no such attribute.
HasClose(obj) == obj # None /\ "close" \in ClientAttrs

\* ReceiverType of a nonce address.
ReceiverTypeOf(address) ==
    IF address = 0 THEN "server"
    ELSE IF address = 1 THEN "initiator" ELSE "responder"

\* Client.p2p_allowed
p2p_allowed(s, receiver_type) == authenticated[s] /\ ctype[s] # receiver_type

\* ------------------------------------------------------------- messages

\* What a client can put on the wire: nonce || payload.  The nonce names the
\* client (src), the destination address (dst) and the sequence number of
\* the client, which increases with every frame.
Wire(s, dst, csn, body) ==
    [nonce |-> [src |-> s, dst |-> dst, csn |-> csn], body |-> body]

\* Payloads addressed to the server (the message map), and the opaque
\* ciphertext of a peer-to-peer frame.
ServerBodies ==
    [type : {"client-hello"}]
    \cup [type : {"client-auth"}, server_cookie : Cookies]
    \cup [type : {"drop-responder"}, responder_id : SlotIds]
    \cup [type : {"garbage"}]

P2PBodies == [type : {"ciphertext"}]

\* message.unpack: a frame whose destination is not the server and that
\* the client may send peer-to-peer is a RawMessage and is not decrypted;
\* everything else is decoded, and what does not decode is a MessageError.
unpack(s, data) ==
    IF data.nonce.dst # 0
    THEN IF p2p_allowed(s, ReceiverTypeOf(data.nonce.dst))
         THEN [exc |-> "none", type |-> "raw", receiver |-> data.nonce.dst,
               nonce |-> data.nonce, data |-> data.body]
         ELSE [exc |-> "MessageError", type |-> "none"]
    ELSE IF data.body.type = "client-hello"
         THEN [exc |-> "none", type |-> "client-hello"]
    ELSE IF data.body.type = "client-auth"
         THEN [exc |-> "none", type |-> "client-auth",
               server_cookie |-> data.body.server_cookie]
    ELSE IF data.body.type = "drop-responder"
         THEN [exc |-> "none", type |-> "drop-responder",
               responder_id |-> data.body.responder_id]
    ELSE [exc |-> "MessageError", type |-> "none"]

\* libnacl.crypto_hash_sha256
sha256(data) == <<"sha256", data>>

\* ServerHelloMessage.create, ServerAuthMessage.create,
\* NewResponderMessage.create, as written to a connection.
ServerHelloMessage(cookie) == [type |-> "server-hello", cookie |-> cookie]
ServerAuthInitiator(responder_ids) ==
    [type |-> "server-auth", responder_ids |-> responder_ids]
ServerAuthResponder == [type |-> "server-auth", responder_ids |-> None]
NewResponderMessage(id) == [type |-> "new-responder", id |-> id]

\* util.consteq
consteq(a, b) == a = b

\* Client.send on a connection: the write, when the connection is open;
\* websockets raises ConnectionClosed (Disconnected) when it is not.
CanSend(s) == conn[s] = "open"
Written(log, s, message) == [log EXCEPT ![s] = Append(@, message)]

\* ------------------------------------------------------------- Init

\* Protocol(): no path, no connection.
Init ==
    /\ paths = [k \in Keys |-> NoPath]
    /\ path_number = 0
    /\ closed_future = FALSE
    /\ pc = [s \in Sessions |-> "idle"]
    /\ exc = [s \in Sessions |-> "none"]
    /\ path_of = [s \in Sessions |-> None]
    /\ ctype = [s \in Sessions |-> "none"]
    /\ authenticated = [s \in Sessions |-> FALSE]
    /\ server_cookie = [s \in Sessions |-> None]
    /\ conn = [s \in Sessions |-> "none"]
    /\ close_code = [s \in Sessions |-> None]
    /\ inbox = [s \in Sessions |-> <<>>]
    /\ sent = [s \in Sessions |-> <<>>]
    /\ ready = <<>>
    /\ nsent = [s \in Sessions |-> 0]
    /\ events = <<>>

\* ------------------------------------------------------------- clients

RECURSIVE SumUpTo(_, _)
SumUpTo(f, n) == IF n = 0 THEN 0 ELSE f[n] + SumUpTo(f, n - 1)
FramesSent == SumUpTo(nsent, NSessions)

\* The connection faults so far: closed connections.
Faults == Cardinality({x \in Sessions : conn[x] = "closed"})

\* A client writes a frame to its connection: a message for the server
\* (destination 0x00) or a peer-to-peer frame for a slot address.  Frames
\* can queue up ahead of the engine.  A frame written after _new_connection
\* has ended is read by nothing and is left out.
ClientSend(s, dst, body) ==
    /\ conn[s] = "open"
    /\ pc[s] \in {"server-hello", "handshake", "client-auth", "relay"}
    /\ FramesSent < MaxFrames
    /\ nsent' = [nsent EXCEPT ![s] = @ + 1]
    /\ inbox' = [inbox EXCEPT ![s] = Append(@, Wire(s, dst, nsent[s] + 1, body))]
    /\ UNCHANGED <<events, close_code, paths, path_number, closed_future, pc, exc,
                   path_of, ctype, authenticated, server_cookie, conn, sent, ready>>

\* The connection closes (the client leaves, or the transport drops it).
ClientDisconnect(s) ==
    /\ conn[s] = "open"
    /\ Faults < MaxFaults
    /\ conn' = [conn EXCEPT ![s] = "closed"]
    /\ UNCHANGED <<events, close_code, paths, path_number, closed_future, pc, exc,
                   path_of, ctype, authenticated, server_cookie, inbox, sent, ready,
                   nsent>>

\* The owner of the engine resolves Protocol._closed_future.
Shutdown ==
    /\ ~closed_future
    /\ closed_future' = TRUE
    /\ UNCHANGED <<events, close_code, paths, path_number, pc, exc, path_of, ctype,
                   authenticated, server_cookie, conn, inbox, sent, ready, nsent>>

\* ------------------------------------------------------------- engine

\* _new_connection ends by raising e.
Raise(s, e) ==
    /\ pc' = [pc EXCEPT ![s] = "raised"]
    /\ exc' = [exc EXCEPT ![s] = e]

\* client.close() with no argument, where a Client has a close: the
\* connection is closed with the default code of a WebSocket close.
Close(x) ==
    /\ conn' = [conn EXCEPT ![x] = "closed"]
    /\ close_code' = [close_code EXCEPT ![x] = NormalClosure]

\* self._loop.create_task: the task is put at the end of the loop's ready
\* queue.
create_task(queue, task) == Append(queue, task)

\* The task of "previous_initiator.close()" that _handshake_initiator
\* creates, where the attribute exists.
CloseTask(s, previous) ==
    [kind |-> "close", sender |-> s, receiver |-> previous, message |-> None]

\* Client.receive: the next frame, unpacked; Disconnected once the
\* connection is closed and nothing is queued.  It suspends otherwise.
CanReceive(s) == inbox[s] # <<>> \/ conn[s] = "closed"
Received(s) ==
    IF inbox[s] # <<>> THEN unpack(s, Head(inbox[s]))
    ELSE [exc |-> "Disconnected", type |-> "none"]
Consumed(s) ==
    [inbox EXCEPT ![s] = IF @ # <<>> THEN Tail(@) ELSE @]

\* The URL paths a connection can come with: the hex form of a key, of the
\* right length or one short; all hex digits, or with an ASCII character
\* that is not a hex digit, or with a character that is not ASCII.
PathChars == {"hex", "nonhex", "nonascii"}
PathInputs == [key : Keys, length : {PATH_LENGTH - 1, PATH_LENGTH}, chars : PathChars]

\* binascii.unhexlify of a str of even length: binascii.Error for a
\* character that is not a hex digit, ValueError for one that is not ASCII.
unhexlify(chars) ==
    IF chars = "hex" THEN "none"
    ELSE IF chars = "nonhex" THEN "binascii.Error" ELSE "ValueError"

\* The state of the connection that _new_connection is handed: open, as the
\* websockets server hands it over, or closed already.
ConnectionInputs == {"open", "closed"}

\* What the send of server-hello at line 298 meets on an open connection:
\* the write goes through at once, or the transport applies flow control
\* and the coroutine suspends in the send.
FlowInputs == {"through", "suspended"}

\* Protocol._get_path: the path table with the key's Path created if absent,
\* and the counter.
get_path(table, number, key) ==
    IF ~table[key].exists
    THEN [paths |-> [table EXCEPT ![key] = NewPath(number + 1)], number |-> number + 1]
    ELSE [paths |-> table, number |-> number]

\* Protocol._clean_path(path): decided on the Path object handed in (its
\* key and its own slots), deleted from the table by the key; KeyError when
\* the table has no Path of that key.  Nothing calls it.
clean_path(table, key, slots) ==
    IF ~empty(slots) THEN [exc |-> "none", paths |-> table]
    ELSE IF table[key].exists
    THEN [exc |-> "none", paths |-> [table EXCEPT ![key] = NoPath]]
    ELSE [exc |-> "KeyError", paths |-> table]

\* os.urandom(COOKIE_LENGTH): a cookie per connection; the values are
\* interchangeable, and connections one apart get different ones.
urandom(s) == ((s - 1) % NCookies) + 1

\* _new_connection up to the first suspension of _handshake: the path is
\* validated and looked up, the Client created, the cookie drawn and
\* server-hello written.  Only binascii.Error is turned into PathError.  The
\* coroutine suspends in the send of line 298 when the transport applies
\* flow control, and in the receive of line 302 otherwise.
NewConnection(s, p, c, f) ==
    /\ pc[s] = "idle"
    /\ (c = "closed" => Faults < MaxFaults)
    /\ conn' = [conn EXCEPT ![s] = c]
    /\ IF p.length # PATH_LENGTH \/ unhexlify(p.chars) = "binascii.Error"
       THEN /\ Raise(s, "PathError")
            /\ UNCHANGED <<paths, path_number, path_of, server_cookie, sent>>
       ELSE IF unhexlify(p.chars) # "none"
       THEN /\ Raise(s, unhexlify(p.chars))
            /\ UNCHANGED <<paths, path_number, path_of, server_cookie, sent>>
       ELSE LET g == get_path(paths, path_number, p.key) IN
            /\ paths' = g.paths
            /\ path_number' = g.number
            /\ path_of' = [path_of EXCEPT ![s] = p.key]
            /\ server_cookie' = [server_cookie EXCEPT ![s] = urandom(s)]
            /\ IF c = "open"
               THEN /\ sent' = Written(sent, s, ServerHelloMessage(urandom(s)))
                    /\ pc' = [pc EXCEPT ![s] = IF f = "suspended" THEN "server-hello"
                                                                 ELSE "handshake"]
                    /\ exc' = exc
               ELSE /\ Raise(s, "Disconnected")
                    /\ sent' = sent
    /\ UNCHANGED <<events, close_code, closed_future, ctype, authenticated, inbox, ready,
                   nsent>>

\* The send of server-hello, suspended at line 298, resumes: the transport
\* has taken the data and _handshake goes on to its first receive, or the
\* connection has closed meanwhile and the send raises Disconnected, with
\* whatever the client has written left unread.
ServerHelloSent(s) ==
    /\ pc[s] = "server-hello"
    /\ IF CanSend(s)
       THEN pc' = [pc EXCEPT ![s] = "handshake"] /\ exc' = exc
       ELSE Raise(s, "Disconnected")
    /\ UNCHANGED <<events, close_code, paths, path_number, closed_future, path_of, ctype,
                   authenticated, server_cookie, conn, inbox, sent, ready, nsent>>

\* The slots of the Path object that _new_connection got from _get_path and
\* hands to the handshake.
PathSlots(s) == paths[path_of[s]].slots

\* "util.consteq(message.server_cookie, server_cookie)" of both handshakes:
\* the cookie of the client-auth against the cookie of this connection's
\* server-hello.
cookie_unchecked(s, message) == TRUE
cookie_present(s, message) == message.server_cookie # None
cookies_match(s, message) == consteq(message.server_cookie, server_cookie[s])

\* _handshake_initiator, from the cookie check to the end.
HandshakeInitiator(s, message) ==
    IF ~cookies_match(s, message)
    THEN /\ Raise(s, "MessageError")
         /\ UNCHANGED <<authenticated, paths, sent, ready>>
    ELSE LET r == set_initiator(PathSlots(s), s) IN
         /\ authenticated' = [authenticated EXCEPT ![s] = TRUE]
         /\ paths' = [paths EXCEPT ![path_of[s]].slots = r.slots]
         /\ IF ~HasClose(r.previous)
            THEN \* previous_initiator.close raises AttributeError
                 /\ Raise(s, "AttributeError")
                 /\ UNCHANGED <<sent, ready>>
            ELSE /\ ready' = create_task(ready, CloseTask(s, r.previous))
                 /\ IF CanSend(s)
                    THEN /\ sent' = Written(sent, s,
                                ServerAuthInitiator(get_responder_ids(r.slots)))
                         /\ pc' = [pc EXCEPT ![s] = "relay"]
                         /\ exc' = exc
                    ELSE /\ Raise(s, "Disconnected")
                         /\ sent' = sent

\* _handshake without its final else: whatever is not client-auth is taken
\* for the client-hello of a responder.
HandshakeFirst_no_else(s) ==
    /\ pc[s] = "handshake"
    /\ CanReceive(s)
    /\ inbox' = Consumed(s)
    /\ LET message == Received(s) IN
       IF message.exc # "none"
       THEN /\ Raise(s, message.exc)
            /\ UNCHANGED <<ctype, authenticated, paths, sent, ready>>
       ELSE IF message.type = "client-auth"
       THEN /\ ctype' = [ctype EXCEPT ![s] = "initiator"]
            /\ HandshakeInitiator(s, message)
       ELSE /\ ctype' = [ctype EXCEPT ![s] = "responder"]
            /\ pc' = [pc EXCEPT ![s] = "client-auth"]
            /\ UNCHANGED <<exc, authenticated, paths, sent, ready>>
    /\ UNCHANGED <<events, close_code, path_number, closed_future, path_of, server_cookie,
                   conn, nsent>>

\* _handshake after server-hello: the first message of the client decides
\* its type.
HandshakeFirst(s) ==
    /\ pc[s] = "handshake"
    /\ CanReceive(s)
    /\ inbox' = Consumed(s)
    /\ LET message == Received(s) IN
       IF message.exc # "none"
       THEN /\ Raise(s, message.exc)
            /\ UNCHANGED <<ctype, authenticated, paths, sent, ready>>
       ELSE IF message.type = "client-auth"
       THEN /\ ctype' = [ctype EXCEPT ![s] = "initiator"]
            /\ HandshakeInitiator(s, message)
       ELSE IF message.type = "client-hello"
       THEN /\ ctype' = [ctype EXCEPT ![s] = "responder"]
            /\ pc' = [pc EXCEPT ![s] = "client-auth"]
            /\ UNCHANGED <<exc, authenticated, paths, sent, ready>>
       ELSE /\ Raise(s, "MessageFlowError")
            /\ UNCHANGED <<ctype, authenticated, paths, sent, ready>>
    /\ UNCHANGED <<events, close_code, path_number, closed_future, path_of, server_cookie,
                   conn, nsent>>

\* The task of "initiator.send(new-responder)" that _handshake_responder
\* creates.
NotifyTask(s, initiator, id) ==
    [kind |-> "send", sender |-> s, receiver |-> initiator,
     message |-> NewResponderMessage(id)]

\* _handshake_responder after client-hello: client-auth, the slot, the
\* new-responder task, server-auth.
HandshakeResponder(s) ==
    /\ pc[s] = "client-auth"
    /\ CanReceive(s)
    /\ inbox' = Consumed(s)
    /\ LET message == Received(s) IN
       IF message.exc # "none"
       THEN /\ Raise(s, message.exc)
            /\ UNCHANGED <<authenticated, paths, sent, ready>>
       ELSE IF message.type # "client-auth"
       THEN /\ Raise(s, "MessageFlowError")
            /\ UNCHANGED <<authenticated, paths, sent, ready>>
       ELSE IF ~cookies_match(s, message)
       THEN /\ Raise(s, "MessageError")
            /\ UNCHANGED <<authenticated, paths, sent, ready>>
       ELSE LET a == add_responder(PathSlots(s), s)
                initiator == get_initiator(a.slots) IN
            /\ authenticated' = [authenticated EXCEPT ![s] = TRUE]
            /\ paths' = [paths EXCEPT ![path_of[s]].slots = a.slots]
            /\ IF a.exc # "none"
               THEN /\ Raise(s, a.exc)
                    /\ UNCHANGED <<sent, ready>>
               ELSE /\ ready' = IF initiator # None
                                THEN create_task(ready, NotifyTask(s, initiator, a.id))
                                ELSE ready
                    \* server-auth goes to initiator.send, not responder.send
                    /\ IF initiator = None
                       THEN Raise(s, "AttributeError") /\ sent' = sent
                       ELSE IF CanSend(initiator)
                       THEN /\ sent' = Written(sent, initiator, ServerAuthResponder)
                            /\ pc' = [pc EXCEPT ![s] = "relay"]
                            /\ exc' = exc
                       ELSE Raise(s, "Disconnected") /\ sent' = sent
    /\ UNCHANGED <<events, close_code, path_number, closed_future, path_of, ctype, server_cookie,
                   conn, nsent>>

\* The event loop runs the task at the head of its ready queue.  The
\* initiator.send(new-responder) of _handshake_responder writes the message
\* to the connection of the initiator, or ends with Disconnected, which
\* nobody awaits; the close of a previous initiator closes its connection.
\* No run creates a task (previous_initiator.close and add_responder raise
\* first), so no state enables the step (ReadyQueueEmpty), and it is not a
\* disjunct of Next.
RunTask ==
    /\ ready # <<>>
    /\ ready' = Tail(ready)
    /\ IF Head(ready).kind = "close"
       THEN /\ Close(Head(ready).receiver)
            /\ sent' = sent
       ELSE /\ sent' = IF CanSend(Head(ready).receiver)
                       THEN Written(sent, Head(ready).receiver, Head(ready).message)
                       ELSE sent
            /\ UNCHANGED <<conn, close_code>>
    /\ UNCHANGED <<events, paths, path_number, closed_future, pc, exc, path_of, ctype,
                   authenticated, server_cookie, inbox, nsent>>

\* ------------------------------------------------------------- specification

Next ==
    \/ \E s \in Sessions, p \in PathInputs, c \in ConnectionInputs, f \in FlowInputs :
            NewConnection(s, p, c, f)
    \/ \E s \in Sessions : ServerHelloSent(s)
    \/ \E s \in Sessions : \E body \in ServerBodies : ClientSend(s, 0, body)
    \/ \E s \in Sessions : \E dst \in SlotIds, body \in P2PBodies : ClientSend(s, dst, body)
    \/ \E s \in Sessions : ClientDisconnect(s)
    \/ Shutdown
    \/ \E s \in Sessions : HandshakeFirst(s)
    \/ \E s \in Sessions : HandshakeResponder(s)

Spec == Init /\ [][Next]_vars

\* ------------------------------------------------------------- claims

\* No run reaches the relay phase: no session is ever at the position where
\* _new_connection starts the receive loop and the keep-alive.
RelayPhaseNotReached == \A s \in Sessions : pc[s] # "relay"

\* No run creates a task: the ready queue of the loop stays empty and
\* RunTask is never enabled.
ReadyQueueEmpty == ready = <<>> /\ ~ENABLED RunTask

IsRelayOf(e, w) == e.type = "relay" /\ e.data = w
IsErrorFor(e, w) == e.type = "send-error" /\ e.id = sha256(w)
RelayCount(x, w) == Cardinality({i \in DOMAIN sent[x] : IsRelayOf(sent[x][i], w)})
ErrorCount(x, w) == Cardinality({i \in DOMAIN sent[x] : IsErrorFor(sent[x][i], w)})
ServerAuthCount(x) == Cardinality({i \in DOMAIN sent[x] : sent[x][i].type = "server-auth"})
NewResponderWritten(x, id) ==
    \E i \in DOMAIN sent[x] : sent[x][i].type = "new-responder" /\ sent[x][i].id = id
NewResponderDispatched(x, id) ==
    \/ NewResponderWritten(x, id)
    \/ \E i \in DOMAIN ready :
            /\ ready[i].kind = "send"
            /\ ready[i].receiver = x /\ ready[i].message.id = id

\* The next frame of s is a client-auth that echoes the cookie of the
\* session's server-hello.
HeadIsClientAuth(s) ==
    /\ inbox[s] # <<>>
    /\ Head(inbox[s]).nonce.dst = 0
    /\ Head(inbox[s]).body.type = "client-auth"
    /\ Head(inbox[s]).body.server_cookie = server_cookie[s]

\* The step in which the engine handles that client-auth, as the first
\* message (an initiator) or after client-hello (a responder).
InitiatorAuthenticates(s) ==
    pc[s] = "handshake" /\ HeadIsClientAuth(s) /\ pc'[s] # "handshake"
ResponderAuthenticates(s) ==
    pc[s] = "client-auth" /\ HeadIsClientAuth(s) /\ pc'[s] # "client-auth"
FreeResponderSlot(s) == \E id \in SlotIds : id > 1 /\ PathSlots(s)[id] = None

\* _new_connection of s has ended (by an exception: it has no other end).
Terminated(s) == pc[s] = "raised"

\* The sessions a slot table references.
Occupants(slots) == {slots[id] : id \in SlotIds} \ {None}

\* C1: an initiator that answers server-hello with a client-auth carrying
\* the server's cookie, on a path whose slot 0x01 is free, is placed in slot
\* 0x01, is sent server-auth and enters the relay phase.
C1_InitiatorHandshakeCompletes ==
    [][\A s \in Sessions :
        (InitiatorAuthenticates(s) /\ PathSlots(s)[1] = None) =>
            /\ (PathSlots(s)[1])' = s
            /\ ServerAuthCount(s)' = ServerAuthCount(s) + 1
            /\ pc'[s] = "relay"]_vars

\* C2: an initiator that authenticates on a path whose slot 0x01 holds
\* another session takes the slot, the previous occupant is closed with
\* 3004, and the new initiator is sent server-auth and enters the relay
\* phase.
C2_InitiatorDisplacement ==
    [][\A s \in Sessions :
        (InitiatorAuthenticates(s) /\ PathSlots(s)[1] \notin {None, s}) =>
            /\ (PathSlots(s)[1])' = s
            /\ conn'[PathSlots(s)[1]] = "closed"
            /\ close_code'[PathSlots(s)[1]] = DroppedByInitiator
            /\ ServerAuthCount(s)' = ServerAuthCount(s) + 1
            /\ pc'[s] = "relay"]_vars

\* C3: the server-auth of a responder's handshake is sent to that responder
\* and to nobody else, and the responder enters the relay phase.
C3_ServerAuthToResponder ==
    [][\A s \in Sessions :
        (ResponderAuthenticates(s) /\ FreeResponderSlot(s)) =>
            /\ sent'[s] = Append(sent[s], ServerAuthResponder)
            /\ \A x \in Sessions \ {s} : ServerAuthCount(x)' = ServerAuthCount(x)
            /\ pc'[s] = "relay"]_vars

\* C4: a responder that authenticates on a path without an initiator gets a
\* slot and server-auth and enters the relay phase.
C4_ResponderWithoutInitiator ==
    [][\A s \in Sessions :
        (ResponderAuthenticates(s) /\ FreeResponderSlot(s)
            /\ PathSlots(s)[1] = None) =>
            /\ \E id \in SlotIds : id > 1 /\ (PathSlots(s)[id])' = s
            /\ ServerAuthCount(s)' = ServerAuthCount(s) + 1
            /\ pc'[s] = "relay"]_vars

\* C5: when a responder authenticates on a path with an initiator, a
\* new-responder with the responder's new slot id is dispatched to the
\* initiator, and server-auth is not written to the responder before it.
C5_NewResponderBeforeServerAuth ==
    [][\A s \in Sessions :
        (ResponderAuthenticates(s) /\ FreeResponderSlot(s)
            /\ PathSlots(s)[1] # None) =>
            \E id \in SlotIds :
                /\ id > 1 /\ (PathSlots(s)[id])' = s
                /\ NewResponderDispatched(PathSlots(s)[1], id)'
                /\ (ServerAuthCount(s)' > ServerAuthCount(s)
                        => NewResponderWritten(PathSlots(s)[1], id)')]_vars

\* A peer-to-peer frame of an authenticated client that no receive will
\* return any more: the client's _new_connection has ended.
UnreadRelayFrames(s) ==
    IF authenticated[s] /\ Terminated(s)
    THEN {i \in DOMAIN inbox[s] : inbox[s][i].nonce.dst # 0}
    ELSE {}

\* C6: a relay frame of an authenticated sender for a slot of its path that
\* a connected client occupies is in that client's log, once.  A frame left
\* in the queue of a session that has ended will not be read: it has to be
\* in the log already.
C6_RelayDelivered ==
    \A s \in Sessions : \A i \in UnreadRelayFrames(s) :
        LET r == PathSlots(s)[inbox[s][i].nonce.dst] IN
        (r \notin {None, s} /\ conn[r] = "open") =>
            /\ RelayCount(r, inbox[s][i]) = 1
            /\ ErrorCount(s, inbox[s][i]) = 0

\* C7: a relay frame for a slot that nobody occupies gets exactly one
\* send-error with the SHA-256 of the frame, in the log of its sender and
\* in no other log, as long as the sender is connected.
C7_SendErrorFeedback ==
    \A s \in Sessions : \A i \in UnreadRelayFrames(s) :
        (ctype[s] # ReceiverTypeOf(inbox[s][i].nonce.dst)
            /\ PathSlots(s)[inbox[s][i].nonce.dst] = None
            /\ conn[s] = "open") =>
            /\ ErrorCount(s, inbox[s][i]) = 1
            /\ \A x \in Sessions \ {s} : ErrorCount(x, inbox[s][i]) = 0

\* C10: the responders list that _handshake_initiator puts into server-auth
\* is the set of the occupied responder slots of the path.
OccupiedResponderSlots(slots) == {id \in SlotIds : id > 1 /\ slots[id] # None}
C10_RespondersAreOccupiedSlots ==
    \A k \in Keys :
        paths[k].exists =>
            get_responder_ids(paths[k].slots) = OccupiedResponderSlots(paths[k].slots)

\* C12: no slot of any path references a session that has terminated.
C12_TeardownClearsSlot ==
    \A s \in Sessions :
        Terminated(s) => \A k \in Keys : s \notin Occupants(paths[k].slots)

\* C13: a path all of whose sessions have terminated is not in the path
\* table with every slot unoccupied.
C13_NoEmptyPath ==
    \A k \in Keys :
        (/\ paths[k].exists
         /\ \E s \in Sessions : path_of[s] = k
         /\ \A s \in Sessions : path_of[s] = k => Terminated(s))
            => ~empty(paths[k].slots)

\* C14: authenticated never goes back to false, and it becomes true only
\* in the handshake step that receives a client-auth with the cookie of the
\* session's server-hello.
C14_AuthenticatedMonotone ==
    [][\A s \in Sessions :
        /\ authenticated[s] => authenticated'[s]
        /\ (~authenticated[s] /\ authenticated'[s]) =>
                /\ pc[s] \in {"handshake", "client-auth"}
                /\ server_cookie[s] # None
                /\ HeadIsClientAuth(s)]_vars

\* C14 witness: a session that connected has become authenticated.
C14_Witness ==
    \E s \in Sessions : server_cookie[s] # None /\ authenticated[s]

\* The next frame of s is a client-auth with another cookie than the one of
\* the session's server-hello.
HeadIsMismatchedClientAuth(s) ==
    /\ inbox[s] # <<>>
    /\ Head(inbox[s]).nonce.dst = 0
    /\ Head(inbox[s]).body.type = "client-auth"
    /\ Head(inbox[s]).body.server_cookie # server_cookie[s]

\* C15: the handshake step that receives a client-auth with a wrong cookie
\* ends the session with MessageError, leaves it unauthenticated, changes no
\* path, closes nobody, and sends and schedules nothing.
C15_CookieMismatch ==
    [][\A s \in Sessions :
        (/\ pc[s] \in {"handshake", "client-auth"}
         /\ HeadIsMismatchedClientAuth(s)
         /\ pc'[s] # pc[s]) =>
            /\ pc'[s] = "raised" /\ exc'[s] = "MessageError"
            /\ ~authenticated'[s]
            /\ paths' = paths
            /\ conn' = conn /\ close_code' = close_code
            /\ sent' = sent /\ ready' = ready]_vars

\* C15 witness: an initiator's handshake has failed on the cookie while
\* another session holds slot 0x01 of the path.
C15_Witness ==
    \E s \in Sessions :
        /\ Terminated(s) /\ exc[s] = "MessageError"
        /\ ctype[s] = "initiator" /\ server_cookie[s] # None
        /\ ~authenticated[s]
        /\ PathSlots(s)[1] \notin {None, s}

\* C16: the slots of a path reference at most one initiator, and slot 0x01
\* is the only slot that references one.
C16_OneInitiator ==
    \A k \in Keys :
        paths[k].exists =>
            /\ Cardinality({s \in Occupants(paths[k].slots) : ctype[s] = "initiator"}) <= 1
            /\ \A id \in SlotIds :
                (id > 1 /\ paths[k].slots[id] # None) =>
                    ctype[paths[k].slots[id]] # "initiator"

\* C16 witness: an initiator has taken slot 0x01 from another initiator of
\* the path.
C16_Witness ==
    \E s, p \in Sessions :
        /\ s # p /\ path_of[s] = path_of[p] /\ path_of[s] \in Keys
        /\ ctype[s] = "initiator" /\ ctype[p] = "initiator"
        /\ authenticated[s] /\ authenticated[p]
        /\ PathSlots(s)[1] = s

\* C18: a client that has authenticated and keeps its connection open is
\* under the keep-alive: its session is in the relay phase, where the pings
\* are sent and a missing pong ends the session with the keep-alive timeout.
C18_KeepAliveTimeout ==
    \A s \in Sessions :
        (authenticated[s] /\ conn[s] = "open" /\ close_code[s] = None) =>
            pc[s] = "relay"

\* C19: the session of an authenticated client that has closed its
\* connection ends with Disconnected, as a disconnect: not with another
\* exception, and not with a close code of the server.
C19_DisconnectDuringKeepAlive ==
    \A s \in Sessions :
        (authenticated[s] /\ conn[s] = "closed" /\ Terminated(s)) =>
            /\ exc[s] = "Disconnected"
            /\ close_code[s] = None

\* A step the engine of s can take by itself.
EngineStep(s) == HandshakeFirst(s) \/ HandshakeResponder(s)

\* C20: once the shutdown future is resolved, the engine of every session
\* with an open connection, one that waits for a frame of an idle client
\* included, can go on to close the connection with 1001.
C20_GracefulShutdown ==
    \A s \in Sessions :
        (closed_future /\ pc[s] \in {"handshake", "client-auth", "relay"}
            /\ conn[s] = "open") =>
            ENABLED (/\ EngineStep(s)
                     /\ conn'[s] = "closed" /\ close_code'[s] = GoingAway)
\* ------------------------------------------------------------- events

\* The events of one kind that the engine has emitted for session s.
EventsOf(s, type) ==
    {i \in DOMAIN events : events[i].type = type /\ events[i].session = s}

\* The connected event of the role of session s.
ConnectedEvent(s) ==
    IF ctype[s] = "initiator" THEN "initiator_connected" ELSE "responder_connected"

\* C21: a session that ends after its handshake has exactly one
\* disconnected event, which carries the key of its path and the close code
\* of its connection; a session that came through the handshake to the
\* relay phase has exactly one connected event for its role, and a
\* disconnected event never comes before the session's connected event.
C21_EventsEmitted ==
    \A s \in Sessions :
        /\ (Terminated(s) /\ authenticated[s]) =>
               /\ Cardinality(EventsOf(s, "disconnected")) = 1
               /\ \A i \in EventsOf(s, "disconnected") :
                      /\ events[i].key = path_of[s]
                      /\ events[i].code = close_code[s]
        /\ (pc[s] = "relay" /\ server_cookie[s] # None) =>
               Cardinality(EventsOf(s, ConnectedEvent(s))) = 1
        /\ \A i \in EventsOf(s, "disconnected") :
               \A j \in EventsOf(s, ConnectedEvent(s)) : j < i


\* ------------------------------------------------------------- drop-responder

\* The next frame of s is a message for the server of one of the given
\* types.
HeadIsServerMessage(s, types) ==
    /\ inbox[s] # <<>>
    /\ Head(inbox[s]).nonce.dst = 0
    /\ Head(inbox[s]).body.type \in types

\* C22: an initiator that has authenticated and keeps its connection open
\* has its drop-responder handled by a session that keeps running: with the
\* request in the queue, the session is in the relay phase.
C22_DropResponder ==
    \A s \in Sessions :
        (/\ ctype[s] = "initiator" /\ authenticated[s] /\ conn[s] = "open"
         /\ HeadIsServerMessage(s, {"drop-responder"})) =>
            pc[s] = "relay"

\* ------------------------------------------------------------- slot allocation

\* The lowest free responder slot of a path.
LowestFree(slots) ==
    CHOOSE i \in SlotIds :
        /\ i > 1 /\ slots[i] = None
        /\ \A j \in SlotIds : (j > 1 /\ slots[j] = None) => i <= j

\* C24: add_responder puts the responder into the lowest free slot of
\* 0x02..0xFF and returns that slot; slot 0x01 and every other slot keep
\* their client.  As a step: a responder that authenticates on a path with a
\* free responder slot is in the lowest free slot afterwards, and nothing
\* else in the path has changed.
C24_LowestFreeSlot ==
    /\ [](\A k \in Keys : \A s \in Sessions :
            (paths[k].exists /\ s \notin Occupants(paths[k].slots)
               /\ \E i \in SlotIds : i > 1 /\ paths[k].slots[i] = None) =>
                LET a == add_responder(paths[k].slots, s) IN
                /\ a.exc = "none"
                /\ a.id = LowestFree(paths[k].slots)
                /\ a.slots = [paths[k].slots EXCEPT ![LowestFree(paths[k].slots)] = s])
    /\ [][\A s \in Sessions :
            (ResponderAuthenticates(s) /\ FreeResponderSlot(s)) =>
                (PathSlots(s))' =
                    [PathSlots(s) EXCEPT ![LowestFree(PathSlots(s))] = s]
        ]_vars

\* ------------------------------------------------------------- message flow

\* The step handles the message at the head of the queue of session s, a
\* decodable message for the server of the given type, while the session is
\* at the given position.
Handles(s, position, type) ==
    /\ pc[s] = position
    /\ inbox[s] # <<>>
    /\ Head(inbox[s]).nonce.dst = 0
    /\ Head(inbox[s]).body.type = type
    /\ inbox'[s] = Tail(inbox[s])

\* The message kinds a client can address to the server.
ClientMessageTypes == {"client-hello", "client-auth", "drop-responder"}

\* The session ends with MessageFlowError and leaves no trace: it is not
\* authenticated, in no slot of any path and not in the relay phase.
RejectedInHandshake(s) ==
    /\ pc'[s] = "raised" /\ exc'[s] = "MessageFlowError"
    /\ ~authenticated'[s]
    /\ \A k \in Keys : s \notin Occupants(paths'[k].slots)

\* C25: after server-hello the engine accepts client-auth, or client-hello
\* followed by client-auth.  Any other message kind as the first message,
\* and any message kind but client-auth after client-hello, raises
\* MessageFlowError, and the session is neither authenticated nor placed nor
\* in the relay phase.
C25_HandshakeMessageFlow ==
    [][\A s \in Sessions :
          /\ \A type \in ClientMessageTypes \ {"client-auth", "client-hello"} :
                 Handles(s, "handshake", type) => RejectedInHandshake(s)
          /\ \A type \in ClientMessageTypes \ {"client-auth"} :
                 Handles(s, "client-auth", type) => RejectedInHandshake(s)
          /\ Handles(s, "handshake", "client-hello") =>
                 /\ pc'[s] = "client-auth" /\ ctype'[s] = "responder"
                 /\ ~authenticated'[s]
      ]_vars

\* A responder that sent client-hello and then something else than
\* client-auth has ended with MessageFlowError, unauthenticated.
C25_Witness ==
    \E s \in Sessions :
        /\ pc[s] = "raised" /\ exc[s] = "MessageFlowError"
        /\ ctype[s] = "responder" /\ server_cookie[s] # None
        /\ ~authenticated[s]
        /\ \A k \in Keys : s \notin Occupants(paths[k].slots)

\* C26: a responder that has authenticated and then sends a message for the
\* server gets MessageFlowError: with such a message next in its queue, its
\* session is in the relay phase, where the message will be refused, and
\* with the session ended the reason is MessageFlowError.
C26_RelayMessageFlow ==
    \A s \in Sessions :
        (/\ ctype[s] = "responder" /\ authenticated[s]
         /\ HeadIsServerMessage(s, ClientMessageTypes)) =>
            \/ pc[s] = "relay"
            \/ Terminated(s) /\ exc[s] = "MessageFlowError"

====
